---- MODULE Spec2Model ----
(***************************************************************************)
(* A model of IncrementExplain: the UniformReservoirStorage background     *)
(* store and the IncrementalSAGE estimator (explain_one).                  *)
(*                                                                         *)
(* Python numbers are modelled by exact rationals [n, d] in lowest terms,  *)
(* so that a loss, an average or a smoothed estimate is computed and not   *)
(* assumed.  Dictionaries are functions whose DOMAIN is the key set, so a  *)
(* missing key is visible.                                                 *)
(***************************************************************************)
EXTENDS Integers, Sequences, FiniteSets, TLC

\* ------------------------------------------------------------------------
\* Bounds of the exploration
\* ------------------------------------------------------------------------
MaxSize == 2          \* largest capacity `size` of a UniformReservoirStorage
MaxOffered == 5       \* updates offered to one UniformReservoirStorage
MaxCalls == 3         \* explain_one calls made on one estimator
MaxSubSample == 2     \* largest sub_sample_size passed to the constructor

\* ------------------------------------------------------------------------
\* Exact arithmetic
\* ------------------------------------------------------------------------
Abs(i) == IF i < 0 THEN -i ELSE i

RECURSIVE GCD(_, _)
GCD(a, b) == IF b = 0 THEN a ELSE GCD(b, a % b)

LCM(a, b) == (a \div GCD(a, b)) * b

Norm(n, d) ==
    LET g == GCD(Abs(n), d)
    IN  [n |-> n \div g, d |-> d \div g]

RInt(i) == [n |-> i, d |-> 1]

RAdd(p, q) ==
    LET l == LCM(p.d, q.d)
    IN  Norm(p.n * (l \div p.d) + q.n * (l \div q.d), l)

RNeg(p) == [n |-> -p.n, d |-> p.d]

RSub(p, q) == RAdd(p, RNeg(q))

RMul(p, q) ==
    LET a == Norm(p.n, q.d)
        b == Norm(q.n, p.d)
    IN  [n |-> a.n * b.n, d |-> a.d * b.d]

RDivInt(p, k) == RMul(p, [n |-> 1, d |-> k])

RAbs(p) == [n |-> Abs(p.n), d |-> p.d]

Zero == RInt(0)

\* ------------------------------------------------------------------------
\* Feature vectors
\* ------------------------------------------------------------------------
feature_names == <<"a", "b">>

FeatureSet == {feature_names[i] : i \in 1..Len(feature_names)}

\* The values a feature or a target takes
Values == {0, 1}

\* A feature vector is a dict: a function from the keys it has to values.
Vectors(keys) == [keys -> Values]

FullVectors == Vectors(FeatureSet)

\* Vectors that lack the last configured feature
PartialVectors == Vectors(FeatureSet \ {feature_names[Len(feature_names)]})

AnyVectors == FullVectors \cup PartialVectors

VARIABLES storage, offer, est, fed

vars == <<storage, offer, est, fed>>

\* ------------------------------------------------------------------------
\* UniformReservoirStorage
\* ------------------------------------------------------------------------
\* BaseStorage.__init__ leaves both lists empty; size and store_targets are
\* the constructor's arguments.
NewStorage(size, store_targets) ==
    [storage_x |-> <<>>, storage_y |-> <<>>,
     size |-> size, store_targets |-> store_targets]

\* BaseStorage.__len__
StorageLen(s) == Len(s.storage_x)

\* The arguments of random.randint in update: the admission draw ranges
\* over randint_lo(s)..randint_hi(s).
randint_lo(s) == 1

randint_hi(s) == Len(s.storage_x)

\* UniformReservoirStorage.update with its two random draws as inputs:
\* random_integer from random.randint, rand_idx from random.randrange.
update_append_beyond_size(s, x, y, random_integer, rand_idx) ==
    IF Len(s.storage_x) <= s.size
    THEN [s EXCEPT !.storage_x = Append(@, x),
                   !.storage_y = IF s.store_targets THEN Append(@, y) ELSE @]
    ELSE s

update(s, x, y, random_integer, rand_idx) ==
    IF Len(s.storage_x) < s.size
    THEN [s EXCEPT !.storage_x = Append(@, x),
                   !.storage_y = IF s.store_targets THEN Append(@, y) ELSE @]
    ELSE IF random_integer <= s.size
         THEN [s EXCEPT !.storage_x[rand_idx + 1] = x,
                        !.storage_y = IF s.store_targets
                                      THEN [@ EXCEPT ![rand_idx + 1] = y]
                                      ELSE @]
         ELSE s

NoOffer ==
    [kind |-> "none", x |-> [f \in FeatureSet |-> 0], y |-> 0,
     lo |-> 0, hi |-> 0, r |-> 0, idx |-> 0, seen_count |-> 0]

\* update called on a store that still has room: no random draw is made.
StorageAppend ==
    /\ offer.seen_count < MaxOffered
    /\ Len(storage.storage_x) < storage.size
    /\ \E x \in FullVectors, y \in Values :
         /\ storage' = update(storage, x, y, 0, 0)
         /\ offer' = [kind |-> "append", x |-> x, y |-> y,
                      lo |-> 0, hi |-> 0, r |-> 0, idx |-> 0,
                      seen_count |-> offer.seen_count + 1]
    /\ UNCHANGED <<est, fed>>

\* update called on a full store: the admission draw, then the slot draw.
StorageReplace ==
    /\ offer.seen_count < MaxOffered
    /\ ~(Len(storage.storage_x) < storage.size)
    /\ \E x \in FullVectors, y \in Values :
         \E r \in randint_lo(storage)..randint_hi(storage),
            j \in 0..(storage.size - 1) :
           /\ storage' = update(storage, x, y, r, j)
           /\ offer' = [kind |-> "full", x |-> x, y |-> y,
                        lo |-> randint_lo(storage),
                        hi |-> randint_hi(storage),
                        r |-> r, idx |-> j,
                        seen_count |-> offer.seen_count + 1]
    /\ UNCHANGED <<est, fed>>

\* ------------------------------------------------------------------------
\* ExponentialSmoothingTracker (utils.trackers)
\* ------------------------------------------------------------------------
\* alpha=0.005, as every tracker of IncrementalSAGE is constructed
alpha == [n |-> 1, d |-> 200]

NewTracker == [tracked_value |-> Zero, initialized |-> FALSE]

\* update(value): the first value initialises the estimate, later values
\* are blended in: estimate + alpha * (value - estimate).
TrackerUpdate(t, value) ==
    IF ~t.initialized
    THEN [tracked_value |-> value, initialized |-> TRUE]
    ELSE [t EXCEPT !.tracked_value =
              RAdd(t.tracked_value, RMul(alpha, RSub(value, t.tracked_value)))]

\* tracker(): the current estimate
TrackerValue(t) == t.tracked_value

\* ------------------------------------------------------------------------
\* Loss functions
\* ------------------------------------------------------------------------
mae_loss(y_true, y_prediction) == RAbs(RSub(y_true, y_prediction))

mse_loss(y_true, y_prediction) ==
    LET diff == RSub(y_true, y_prediction) IN RMul(diff, diff)

\* self.loss_function, selected by name in __init__
loss_function(name, y_true, y_prediction) ==
    IF name = "mae"
    THEN mae_loss(y_true, y_prediction)
    ELSE mse_loss(y_true, y_prediction)

\* ------------------------------------------------------------------------
\* The caller's model function
\* ------------------------------------------------------------------------
\* Two deterministic models: "a" returns x['a'], "sum" returns x['a'] + x['b'].
Models == {"a", "sum"}

ModelKeys(m) == IF m = "a" THEN {"a"} ELSE {"a", "b"}

\* model_fn(x) raises KeyError when x lacks a key the model reads.
CanScore(m, x) == ModelKeys(m) \subseteq DOMAIN x

model_fn(m, x) == IF m = "a" THEN RInt(x["a"]) ELSE RInt(x["a"] + x["b"])

\* ------------------------------------------------------------------------
\* ReservoirSampler (storage.sampler), the background store of sampling mode
\* ------------------------------------------------------------------------
reservoir_length == 300

\* update(x, y): append while the reservoir has room.  With
\* constant_probability=1. and reservoir_length=300 the reservoir has room
\* for every example of the runs explored here.
sampler_update(store, x) ==
    IF Len(store) < reservoir_length THEN Append(store, x) ELSE store

Min(a, b) == IF a < b THEN a ELSE b

\* sample(k): the lists of examples a draw of k may return: uniform index
\* draws into the current occupancy, as many as available when the store
\* holds fewer than k examples (none from an empty store).  Draws that
\* repeat an index are included, so the lists drawn without replacement
\* (sample_with_replacement=False) are among them.
sampler_sample(store, k) ==
    LET n == Len(store)
        picks == IF k <= 0 THEN {<<>>} ELSE [1..Min(k, n) -> 1..n]
    IN  {[i \in 1..Len(s) |-> store[s[i]]] : s \in picks}

\* ------------------------------------------------------------------------
\* IncrementalSAGE: construction
\* ------------------------------------------------------------------------
Insts == {1, 2}

LossNames == {"mae", "mse", "rmse"}

RandomStates == {0}

EmptyVector == [f \in {} |-> 0]

ZeroVector == [f \in FeatureSet |-> 0]

\* What the latest explain_one call did (a record kept for the properties).
NoCall ==
    [kind |-> "none", x |-> EmptyVector, y |-> 0, perm |-> <<>>,
     raised |-> "None", ret |-> <<>>, scores |-> 0, mp_fed |-> <<>>,
     baseline |-> <<>>, updates |-> <<>>, draws |-> <<>>,
     inserted |-> FALSE]

\* An estimator object: phase "new" before the constructor ran, "failed"
\* when it raised (init_error), "ready" when it returned.  default_values
\* is <<>> for None and <<dict>> otherwise; default_len is the length of
\* the list the caller passed (-1 for None).  calls counts the explain_one
\* calls made, and only_example tells whether each of them was fed
\* Example.
NoEstimator ==
    [phase |-> "new", init_error |-> "None", default_len |-> -1,
     model_fn |-> "a", random_state |-> 0, number_of_features |-> 0,
     seen_samples |-> 0, loss_function |-> "mse", default_values |-> <<>>,
     sampler |-> <<>>, sub_sample_size |-> 0,
     marginal_prediction |-> NewTracker,
     SAGE_trackers |-> [f \in FeatureSet |-> NewTracker],
     pfi_trackers |-> [f \in FeatureSet |-> NewTracker],
     calls |-> 0, only_example |-> TRUE, last |-> NoCall]

\* The constructor's default_values argument: None, or a list.
NoneArg == [none |-> TRUE, list |-> <<>>]

ListArg(l) == [none |-> FALSE, list |-> l]

\* The position of a feature in feature_names (0-based, as range() counts).
IndexOf(feature) ==
    CHOOSE i \in 0..(Len(feature_names) - 1) : feature_names[i + 1] = feature

\* {feature: default_values[i] for feature, i in zip(feature_names, range(len(feature_names)))}
\* raises IndexError when the list is shorter than feature_names.
DefaultDictRaises(list) == Len(list) < Len(feature_names)

DefaultDict(list) == [f \in FeatureSet |-> list[IndexOf(f) + 1]]

\* IncrementalSAGE.__init__
init(model, loss, random_state, sub_sample_size, default_values) ==
    IF loss \notin {"mae", "mse"}
    THEN [NoEstimator EXCEPT !.phase = "failed",
                             !.init_error = "AssertionError"]
    ELSE IF ~default_values.none /\ DefaultDictRaises(default_values.list)
    THEN [NoEstimator EXCEPT !.phase = "failed",
                             !.init_error = "IndexError",
                             !.default_len = Len(default_values.list)]
    ELSE [NoEstimator EXCEPT
            !.phase = "ready",
            !.default_len = IF default_values.none THEN -1
                            ELSE Len(default_values.list),
            !.model_fn = model,
            !.random_state = random_state,
            !.number_of_features = Len(feature_names),
            !.seen_samples = 0,
            !.loss_function = loss,
            !.default_values = IF default_values.none THEN <<>>
                               ELSE <<DefaultDict(default_values.list)>>,
            !.sampler = <<>>,
            !.sub_sample_size = sub_sample_size]

\* SAGE_values: the snapshot, one value per configured feature
SAGE_values(trackers) == [f \in FeatureSet |-> trackers[f].tracked_value]

\* default_values is None: the estimator samples its background
Sampling(e) == e.default_values = <<>>

\* ------------------------------------------------------------------------
\* IncrementalSAGE.explain_one
\* ------------------------------------------------------------------------
\* if self.seen_samples < 1
no_warmup(e) == e.seen_samples < 0

is_warmup(e) == e.seen_samples < 1

\* if self.default_values is None: self._update_sampler(x_i, y_i)
update_sampler_skipped(e, x_i) == e.sampler

update_sampler(e, x_i) ==
    IF Sampling(e) THEN sampler_update(e.sampler, x_i) ELSE e.sampler

\* x_S[feature] = x_i[feature]
Reveal(x_S, x_i, feature) ==
    [f \in DOMAIN x_S \cup {feature} |->
        IF f = feature THEN x_i[feature] ELSE x_S[f]]

\* {**x_marginals[k], **x_S}: the revealed values override the background
MergeBackgroundWins(background, x_S) ==
    [f \in DOMAIN background \cup DOMAIN x_S |->
        IF f \in DOMAIN background THEN background[f] ELSE x_S[f]]

Merge(background, x_S) ==
    [f \in DOMAIN background \cup DOMAIN x_S |->
        IF f \in DOMAIN x_S THEN x_S[f] ELSE background[f]]

\* marginal_contribution = sample_loss - feature_loss
marginal_contribution_reversed(sample_loss, feature_loss) ==
    RSub(feature_loss, sample_loss)

marginal_contribution(sample_loss, feature_loss) ==
    RSub(sample_loss, feature_loss)

\* sample_loss = feature_loss, the loss the next feature starts from
chain_dropped(sample_loss, feature_loss) == sample_loss

chain(sample_loss, feature_loss) == feature_loss

\* x_marginals of one feature step: the sampler's draw, or sub_sample_size
\* copies of the default vector
x_marginals(e, drawn) ==
    IF Sampling(e)
    THEN drawn
    ELSE [i \in 1..e.sub_sample_size |-> e.default_values[1]]

RECURSIVE SumPredictions(_, _, _)
\* y += self.model_fn(x_marginal)[0], for the first k vectors
SumPredictions(m, vectors, k) ==
    IF k = 0 THEN Zero
    ELSE RAdd(SumPredictions(m, vectors, k - 1), model_fn(m, vectors[k]))

SetMin(S) == CHOOSE i \in S : \A j \in S : i <= j

\* One pass of the for loop over permutation_chain.  st carries the loop's
\* variables (x_S, sample_loss, the trackers) and the record of the call.
SweepStep(e, x_i, y_i, feature, drawn, st) ==
    IF feature \notin DOMAIN x_i
    THEN [st EXCEPT !.raised = "KeyError"]
    ELSE
      LET x_S == Reveal(st.x_S, x_i, feature)
          xm == x_marginals(e, drawn)
          n == Min(e.sub_sample_size, Len(xm))
          merged == [k \in 1..n |-> Merge(xm[k], x_S)]
          bad == {k \in 1..n : ~CanScore(e.model_fn, merged[k])}
          drawlog == IF Sampling(e)
                   THEN Append(st.draws, [occ |-> Len(e.sampler),
                                          req |-> e.sub_sample_size,
                                          got |-> Len(xm)])
                   ELSE st.draws
      IN  IF bad # {}
          THEN [st EXCEPT !.x_S = x_S, !.draws = drawlog,
                          !.scores = @ + SetMin(bad), !.raised = "KeyError"]
          ELSE IF n = 0
          THEN [st EXCEPT !.x_S = x_S, !.draws = drawlog,
                          !.raised = "ZeroDivisionError"]
          ELSE
            LET y == RDivInt(SumPredictions(e.model_fn, merged, n), n)
                feature_loss == loss_function(e.loss_function, RInt(y_i), y)
                contribution ==
                    marginal_contribution(st.sample_loss, feature_loss)
            IN  [st EXCEPT
                   !.x_S = x_S,
                   !.draws = drawlog,
                   !.scores = @ + n,
                   !.trackers[feature] = TrackerUpdate(@, contribution),
                   !.updates = Append(@, [feature |-> feature,
                                          before |-> st.sample_loss,
                                          after |-> feature_loss,
                                          value |-> contribution,
                                          k |-> n,
                                          vectors |-> merged]),
                   !.sample_loss = chain(st.sample_loss, feature_loss)]

RECURSIVE Sweep(_, _, _, _, _, _, _)
\* for feature in permutation_chain, from position i on; an exception ends it
Sweep(e, x_i, y_i, permutation_chain, draws, i, st) ==
    IF i > Len(permutation_chain) \/ st.raised # "None"
    THEN st
    ELSE Sweep(e, x_i, y_i, permutation_chain, draws, i + 1,
               SweepStep(e, x_i, y_i, permutation_chain[i],
                         IF Sampling(e) THEN draws[i + 1] ELSE <<>>, st))

\* The warm-up branch of explain_one
WarmUp(e, x_i, y_i) ==
    [e EXCEPT
       !.seen_samples = @ + 1,
       !.sampler = update_sampler(e, x_i),
       !.calls = @ + 1,
       !.last = [NoCall EXCEPT
                   !.kind = "warmup", !.x = x_i, !.y = y_i,
                   !.ret = <<SAGE_values(e.SAGE_trackers)>>,
                   !.inserted = (update_sampler(e, x_i) # e.sampler)]]

\* explain_one(x_i, y_i).  permutation_chain is the draw of
\* np.random.permutation; draws[1] is the sampler's draw for the marginal
\* prediction and draws[i + 1] its draw at the i-th feature step.
explain_one(e, x_i, y_i, permutation_chain, draws) ==
    IF is_warmup(e)
    THEN WarmUp(e, x_i, y_i)
    ELSE
      LET x_marginal == IF Sampling(e)
                        THEN draws[1]
                        ELSE <<e.default_values[1]>>
          draw0 == IF Sampling(e)
                   THEN <<[occ |-> Len(e.sampler), req |-> 1,
                           got |-> Len(x_marginal)]>>
                   ELSE <<>>
          call == [NoCall EXCEPT !.kind = "sweep", !.x = x_i, !.y = y_i,
                                 !.perm = permutation_chain, !.draws = draw0]
      IN  IF Len(x_marginal) = 0
          THEN [e EXCEPT !.calls = @ + 1,
                         !.last = [call EXCEPT !.raised = "IndexError"]]
          ELSE IF ~CanScore(e.model_fn, x_marginal[1])
          THEN [e EXCEPT !.calls = @ + 1,
                         !.last = [call EXCEPT !.raised = "KeyError",
                                               !.scores = 1]]
          ELSE
            LET prediction == model_fn(e.model_fn, x_marginal[1])
                mp == TrackerUpdate(e.marginal_prediction, prediction)
                sample_loss == loss_function(e.loss_function, RInt(y_i),
                                             TrackerValue(mp))
                st0 == [x_S |-> EmptyVector, sample_loss |-> sample_loss,
                        trackers |-> e.SAGE_trackers, updates |-> <<>>,
                        draws |-> draw0, scores |-> 1, raised |-> "None"]
                st == Sweep(e, x_i, y_i, permutation_chain, draws, 1, st0)
                done == [call EXCEPT !.scores = st.scores,
                                     !.mp_fed = <<prediction>>,
                                     !.baseline = <<sample_loss>>,
                                     !.updates = st.updates,
                                     !.draws = st.draws]
            IN  IF st.raised # "None"
                THEN [e EXCEPT
                        !.marginal_prediction = mp,
                        !.SAGE_trackers = st.trackers,
                        !.calls = @ + 1,
                        !.last = [done EXCEPT !.raised = st.raised]]
                ELSE [e EXCEPT
                        !.marginal_prediction = mp,
                        !.SAGE_trackers = st.trackers,
                        !.seen_samples = @ + 1,
                        !.sampler = update_sampler(e, x_i),
                        !.calls = @ + 1,
                        !.last = [done EXCEPT
                                    !.ret = <<SAGE_values(st.trackers)>>,
                                    !.inserted =
                                        (update_sampler(e, x_i) # e.sampler)]]

\* ------------------------------------------------------------------------
\* Inputs
\* ------------------------------------------------------------------------
\* np.random.permutation(self.feature_names): any ordering of the names,
\* drawn from numpy's global generator
PermutationChains ==
    {p \in [1..Len(feature_names) -> FeatureSet] :
        \A i, j \in 1..Len(feature_names) : i # j => p[i] # p[j]}

\* The warm-up branch returns before the permutation is drawn.
PermutationChoices(e) ==
    IF is_warmup(e) THEN {feature_names} ELSE PermutationChains

Lists(n) == IF n < 0 THEN {} ELSE [1..n -> Values]

DefaultArgs ==
    {NoneArg} \cup
    {ListArg(l) : l \in Lists(Len(feature_names) - 1)
                        \cup Lists(Len(feature_names))
                        \cup Lists(Len(feature_names) + 1)}

\* The sampler draws one call of explain_one may see: none during warm-up
\* and with default_values, else one draw of 1 and one draw of
\* sub_sample_size per feature.
DrawChoices(e) ==
    IF is_warmup(e) \/ ~Sampling(e)
    THEN {<<>>}
    ELSE {[i \in 1..(Len(feature_names) + 1) |->
              IF i = 1 THEN d0 ELSE ds[i - 1]] :
            d0 \in sampler_sample(e.sampler, 1),
            ds \in [1..Len(feature_names) ->
                      sampler_sample(e.sampler, e.sub_sample_size)]}

\* Calls are explored while the estimates fit 32-bit integers: one call
\* multiplies the denominator of the marginal prediction by at most alpha.d
\* and, through the squared loss, that of a SAGE value by at most alpha.d
\* cubed.
Fits(e) ==
    /\ e.marginal_prediction.tracked_value.d = 1
    /\ \A f \in FeatureSet :
         e.SAGE_trackers[f].tracked_value.d <= alpha.d * alpha.d

\* The example of the end-to-end scenario: {a: 1, b: 0} with target 1
Example == [x |-> [f \in FeatureSet |-> IF f = "a" THEN 1 ELSE 0], y |-> 1]

\* ------------------------------------------------------------------------
\* Actions
\* ------------------------------------------------------------------------
Construct(i) ==
    /\ est[i].phase = "new"
    /\ \E model \in Models, loss \in LossNames, rs \in RandomStates,
          sub \in 0..MaxSubSample, dv \in DefaultArgs :
         est' = [est EXCEPT ![i] = init(model, loss, rs, sub, dv)]
    /\ UNCHANGED <<storage, offer, fed>>

Call(i, x_i, y_i) ==
    /\ est[i].phase = "ready"
    /\ est[i].calls < MaxCalls
    /\ Fits(est[i])
    /\ \E p \in PermutationChoices(est[i]), draws \in DrawChoices(est[i]) :
         est' = [est EXCEPT ![i] =
                    [explain_one(est[i], x_i, y_i, p, draws) EXCEPT
                       !.only_example = @ /\ x_i = Example.x /\ y_i = Example.y]]

\* IncrementalSAGE(...) on the estimator of the single-instance runs
Constructor == Construct(1)

\* explain_one(x, y) with any feature vector, complete or not
Explain ==
    /\ \E x_i \in AnyVectors, y_i \in Values : Call(1, x_i, y_i)
    /\ UNCHANGED <<storage, offer, fed>>

\* Two instances fed the same stream: the first receives an example ...
PairFirst ==
    /\ fed = <<>>
    /\ \E x_i \in FullVectors, y_i \in Values :
         /\ Call(1, x_i, y_i)
         /\ fed' = <<[x |-> x_i, y |-> y_i]>>
    /\ UNCHANGED <<storage, offer>>

\* ... and the second receives the same example.
PairSecond ==
    /\ fed # <<>>
    /\ Call(2, fed[1].x, fed[1].y)
    /\ fed' = <<>>
    /\ UNCHANGED <<storage, offer>>

\* ------------------------------------------------------------------------
\* Specifications
\* ------------------------------------------------------------------------
Init ==
    /\ storage = NewStorage(1, FALSE)
    /\ offer = NoOffer
    /\ est = [i \in Insts |-> NoEstimator]
    /\ fed = <<>>

Next == Constructor \/ Explain

Spec == Init /\ [][Next]_vars

\* A UniformReservoirStorage of any capacity, offered a stream of examples
InitStorage ==
    /\ \E size \in 1..MaxSize, store_targets \in BOOLEAN :
         storage = NewStorage(size, store_targets)
    /\ offer = NoOffer
    /\ est = [i \in Insts |-> NoEstimator]
    /\ fed = <<>>

NextStorage == StorageAppend \/ StorageReplace

SpecStorage == InitStorage /\ [][NextStorage]_vars

\* Two estimators constructed with the same arguments, default_values
\* among them
InitPair ==
    /\ storage = NewStorage(1, FALSE)
    /\ offer = NoOffer
    /\ \E model \in Models, loss \in {"mae", "mse"}, rs \in RandomStates,
          sub \in 1..MaxSubSample, l \in Lists(Len(feature_names)) :
         est = [i \in Insts |-> init(model, loss, rs, sub, ListArg(l))]
    /\ fed = <<>>

NextPair == PairFirst \/ PairSecond

SpecPair == InitPair /\ [][NextPair]_vars

\* ------------------------------------------------------------------------
\* Properties of UniformReservoirStorage (SpecStorage)
\* ------------------------------------------------------------------------
\* C1: the store never holds more than `size` vectors; while it has room
\* every update appends the offered vector, so after n updates the
\* occupancy is min(n, size).
C1_OccupancyIsMinOfferedSize ==
    /\ StorageLen(storage) <= storage.size
    /\ StorageLen(storage) = Min(offer.seen_count, storage.size)
    /\ (1 <= offer.seen_count /\ offer.seen_count <= storage.size)
         => storage.storage_x[offer.seen_count] = offer.x
    /\ storage.store_targets => Len(storage.storage_y) = StorageLen(storage)

C1_Witness ==
    /\ StorageLen(storage) = storage.size
    /\ offer.seen_count > storage.size
    /\ storage.size > 1

\* C2: on a full store the admission draw ranges over 1..seen_count, the
\* number of vectors offered so far including the current one.
C2_AdmissionDrawOverSeenCount ==
    offer.kind = "full" =>
        /\ offer.lo = 1
        /\ offer.hi = offer.seen_count

\* ------------------------------------------------------------------------
\* Properties of IncrementalSAGE (Spec: one estimator, est[1])
\* ------------------------------------------------------------------------
ZeroSnapshot == [f \in FeatureSet |-> Zero]

\* The latest call was a sweep that returned to the caller.
SweepReturned(e) ==
    /\ e.phase = "ready"
    /\ e.last.kind = "sweep"
    /\ e.last.raised = "None"

\* C3: the first explain_one call on a fresh estimator is a warm-up: the
\* model is not scored, no tracker is updated, the returned snapshot is all
\* zero, seen_samples becomes 1, and x enters the background store exactly
\* when the estimator samples (no default_values).
C3_WarmUpNoOp ==
    LET e == est[1]
    IN  (e.phase = "ready" /\ e.calls = 1) =>
          /\ e.last.kind = "warmup"
          /\ e.last.raised = "None"
          /\ e.last.scores = 0
          /\ e.last.updates = <<>>
          /\ e.last.mp_fed = <<>>
          /\ e.marginal_prediction = NewTracker
          /\ \A f \in FeatureSet : e.SAGE_trackers[f] = NewTracker
          /\ e.last.ret = <<ZeroSnapshot>>
          /\ e.seen_samples = 1
          /\ Sampling(e) => e.sampler = <<e.last.x>> /\ e.last.inserted
          /\ ~Sampling(e) => e.sampler = <<>> /\ ~e.last.inserted

C3_Witness ==
    /\ est[1].phase = "ready"
    /\ est[1].calls = 1
    /\ Sampling(est[1])
    /\ Len(est[1].sampler) = 1

\* What C4 asks of one step est -> est' that is a sweep of est[1] which
\* returned.
C4_Step ==
    LET e == est[1]
        e2 == est'[1]
        c == e2.last
        n == Len(feature_names)
    IN  (e.phase = "ready" /\ e.seen_samples >= 1 /\ e2.calls = e.calls + 1
         /\ c.raised = "None") =>
          /\ c.kind = "sweep"
          /\ Len(c.updates) = n
          /\ \A i \in 1..n : c.updates[i].feature = c.perm[i]
          /\ \A f \in FeatureSet :
               Cardinality({i \in 1..n : c.updates[i].feature = f}) = 1
          /\ Len(c.mp_fed) = 1
          /\ e2.marginal_prediction =
                 TrackerUpdate(e.marginal_prediction, c.mp_fed[1])
          /\ c.updates[1].before =
                 loss_function(e.loss_function, RInt(c.y),
                               TrackerValue(e2.marginal_prediction))
          /\ \A i \in 2..n : c.updates[i].before = c.updates[i - 1].after
          /\ \A i \in 1..n :
               LET u == c.updates[i]
               IN  /\ u.after =
                         loss_function(e.loss_function, RInt(c.y),
                             RDivInt(SumPredictions(e.model_fn, u.vectors, u.k),
                                     u.k))
                   /\ e2.SAGE_trackers[u.feature] =
                         TrackerUpdate(e.SAGE_trackers[u.feature],
                                       RSub(u.before, u.after))

\* C4: on every explain_one call after warm-up that returns, the sweep
\* visits each configured feature exactly once, in permutation order; the
\* tracker of each feature receives exactly one update, whose value is the
\* loss before revealing the feature minus the loss after it, where the first
\* loss is loss(y, marginal-prediction tracker) and each later one is the
\* feature_loss of the preceding feature; the marginal-prediction tracker is
\* updated exactly once.
C4_EachTrackerOneUpdate == [][C4_Step]_vars

C4_Witness ==
    /\ SweepReturned(est[1])
    /\ est[1].seen_samples >= 3
    /\ est[1].last.updates[1].value # est[1].last.updates[2].value

\* C6: with model x['a'], squared error, default_values [0, 0] and the
\* example ({a: 1, b: 0}, 1) fed on every call, each sweep feeds 1 to the
\* tracker of 'a' and 0 to the tracker of 'b' whatever the permutation, and
\* the snapshot is a = 1, b = 0 after every sweep.
C6_ExampleContributions ==
    LET e == est[1]
    IN  (/\ e.phase = "ready"
         /\ e.model_fn = "a"
         /\ e.loss_function = "mse"
         /\ e.default_len = 2
         /\ e.default_values = <<ZeroVector>>
         /\ e.sub_sample_size >= 1
         /\ e.only_example
         /\ e.calls >= 2) =>
          /\ e.last.raised = "None"
          /\ Len(e.last.updates) = 2
          /\ \A i \in 1..2 :
               e.last.updates[i].value =
                   RInt(IF e.last.updates[i].feature = "a" THEN 1 ELSE 0)
          /\ e.last.ret = <<[f \in FeatureSet |->
                               RInt(IF f = "a" THEN 1 ELSE 0)]>>
          /\ SAGE_values(e.SAGE_trackers) = e.last.ret[1]

C6_Witness ==
    LET e == est[1]
    IN  /\ e.phase = "ready"
        /\ e.model_fn = "a"
        /\ e.loss_function = "mse"
        /\ e.default_len = 2
        /\ e.default_values = <<ZeroVector>>
        /\ e.only_example
        /\ e.calls >= 3
        /\ e.last.perm = <<"b", "a">>

\* C7: an estimator exists only if the default_values list it was given has
\* exactly one entry per feature name.
C7_DefaultLengthChecked ==
    \A i \in Insts :
        (est[i].phase = "ready" /\ est[i].default_len # -1) =>
            est[i].default_len = Len(feature_names)

\* C8: an explain_one call whose x lacks a configured feature raises, and
\* its x is not stored in the background pool.
C8_MissingFeatureSurfaces ==
    LET e == est[1]
    IN  (e.phase = "ready" /\ e.last.kind # "none"
         /\ ~(FeatureSet \subseteq DOMAIN e.last.x)) =>
          /\ e.last.raised # "None"
          /\ ~e.last.inserted

\* C9: in sampling mode with sub_sample_size >= 1, every draw of a sweep
\* finds at least one stored example; the draws see the store without the
\* current example, which is appended only when the sweep is over; and at
\* every feature step the number k of averaged predictions satisfies
\* 1 <= k <= sub_sample_size, so no average divides by zero.
C9_DrawsNeverEmpty ==
    LET e == est[1]
        c == e.last
    IN  (e.phase = "ready" /\ Sampling(e) /\ e.sub_sample_size >= 1
         /\ c.kind = "sweep") =>
          /\ Len(c.draws) >= 1
          /\ \A i \in 1..Len(c.draws) :
               /\ c.draws[i].occ >= 1
               /\ c.draws[i].got >= 1
               /\ c.draws[i].occ =
                    Len(e.sampler) - (IF c.inserted THEN 1 ELSE 0)
          /\ c.inserted <=> c.raised = "None"
          /\ c.inserted => e.sampler[Len(e.sampler)] = c.x
          /\ \A i \in 1..Len(c.updates) :
               /\ 1 <= c.updates[i].k
               /\ c.updates[i].k <= e.sub_sample_size
          /\ c.raised \notin {"ZeroDivisionError", "IndexError"}

C9_Witness ==
    /\ SweepReturned(est[1])
    /\ Sampling(est[1])
    /\ est[1].sub_sample_size = 2
    /\ est[1].last.updates[1].k = 1
    /\ est[1].last.draws[2].got < est[1].last.draws[2].req

RECURSIVE SumValues(_, _)
SumValues(updates, i) ==
    IF i = 0 THEN Zero ELSE RAdd(SumValues(updates, i - 1), updates[i].value)

\* C10: in a sweep that returns, the contributions fed to the trackers sum
\* to loss(y, marginal-prediction tracker) minus the feature_loss of the
\* last feature; the vectors scored at the last step carry x's value for
\* every configured feature; with default_values that last feature_loss is
\* loss(y, model(x)), whatever the permutation.
C10_ContributionsTelescope ==
    LET e == est[1]
        c == e.last
        n == Len(c.updates)
    IN  SweepReturned(e) =>
          /\ n = Len(feature_names)
          /\ SumValues(c.updates, n) =
                RSub(loss_function(e.loss_function, RInt(c.y),
                                   TrackerValue(e.marginal_prediction)),
                     c.updates[n].after)
          /\ \A k \in 1..Len(c.updates[n].vectors) :
               \A f \in FeatureSet : c.updates[n].vectors[k][f] = c.x[f]
          /\ ~Sampling(e) =>
               c.updates[n].after =
                   loss_function(e.loss_function, RInt(c.y),
                                 model_fn(e.model_fn, c.x))

C10_Witness ==
    /\ SweepReturned(est[1])
    /\ ~Sampling(est[1])
    /\ est[1].seen_samples >= 3
    /\ est[1].last.updates[1].value.n # 0
    /\ est[1].last.updates[2].value.n # 0
    /\ est[1].last.updates[2].after.n > 0

\* ------------------------------------------------------------------------
\* Two estimators with the same arguments and the same stream (SpecPair)
\* ------------------------------------------------------------------------
\* C5: two estimators built with the same random_state and default_values
\* and fed the same calls return the same snapshot after every call.
C5_SameSeedSameSnapshot ==
    (/\ fed = <<>>
     /\ est[1].random_state = est[2].random_state
     /\ est[1].calls = est[2].calls) =>
        /\ est[1].last.ret = est[2].last.ret
        /\ SAGE_values(est[1].SAGE_trackers) = SAGE_values(est[2].SAGE_trackers)

====
